---- MODULE Spec2Model ----
(***************************************************************************)
(* A model of epub-query: EpubParser (parser.py) and EpubQuery (query.py). *)
(*                                                                         *)
(* Strings are sequences of one-character strings, so that strip, split,   *)
(* join, re.escape and re.findall are computed, not assumed.  The epub     *)
(* file is a record: the manifest's items in manifest order (the order in  *)
(* which ebooklib's book.items holds them and get_items_of_type yields     *)
(* them), the spine (a sequence of item names) and the DC metadata lists.  *)
(* A content document's markup is the sequence of its elements in document *)
(* order, each a tag and the text node it holds.                           *)
(***************************************************************************)
EXTENDS Integers, Sequences, FiniteSets

\* fs: what the path holds; doc: the package there.  handle: whether an
\* EpubQuery was returned.  _book: EpubParser._book; _chapters:
\* EpubQuery._chapters.  ret: the last call, its arguments and what it
\* returned or raised.  extractions and reads count the runs of get_chapters'
\* loop and of read_epub; search_failed records that a search on the handle
\* raised re.error.
VARIABLES fs, doc, handle, _book, _chapters, ret, extractions, reads,
          search_failed

vars == <<fs, doc, handle, _book, _chapters, ret, extractions, reads,
          search_failed>>

\* ------------------------------------------------------------------ bounds

\* The longest manifest of a document.
MaxItems == 2
\* The largest context_lines a search is called with.
MaxContext == 1
\* The cap of the two work counters (extractions, reads).
MaxWork == 2

\* ----------------------------------------------------------------- strings

NL == "\n"
SP == " "
BS == "\\"

\* Python's None and a present value of an optional field.
None == <<>>
Some(v) == <<v>>

Max(a, b) == IF a >= b THEN a ELSE b
Min(a, b) == IF a <= b THEN a ELSE b

\* str.isspace for the characters of the model.
IsSpace(c) == c \in {SP, NL}

\* str.lower, as re.IGNORECASE folds the characters of the model.
Lower(c) == IF c = "A" THEN "a" ELSE IF c = "B" THEN "b" ELSE c

RECURSIVE LStrip(_)
LStrip(s) ==
  IF s = <<>> THEN <<>>
  ELSE IF IsSpace(Head(s)) THEN LStrip(Tail(s)) ELSE s

RECURSIVE RStrip(_)
RStrip(s) ==
  IF s = <<>> THEN <<>>
  ELSE IF IsSpace(s[Len(s)]) THEN RStrip(SubSeq(s, 1, Len(s) - 1)) ELSE s

\* str.strip().
Strip(s) == RStrip(LStrip(s))

\* sep.join(parts).
RECURSIVE Join(_, _)
Join(parts, sep) ==
  IF parts = <<>> THEN <<>>
  ELSE IF Len(parts) = 1 THEN parts[1]
  ELSE parts[1] \o sep \o Join(Tail(parts), sep)

\* Whether sep occurs in s at index i (1-based).
OccursAt(s, sep, i) ==
  /\ i + Len(sep) - 1 <= Len(s)
  /\ SubSeq(s, i, i + Len(sep) - 1) = sep

\* str.split(sep) for a non-empty sep: the leftmost occurrences, not
\* overlapping; a string without sep is returned whole (also the empty one).
RECURSIVE SplitFrom(_, _, _)
SplitFrom(s, sep, i) ==
  IF i > Len(s) THEN <<s>>
  ELSE IF OccursAt(s, sep, i)
       THEN <<SubSeq(s, 1, i - 1)>>
            \o SplitFrom(SubSeq(s, i + Len(sep), Len(s)), sep, 1)
       ELSE SplitFrom(s, sep, i + 1)

Split(s, sep) == SplitFrom(s, sep, 1)

\* str.split(): the maximal runs of non-whitespace characters.
RECURSIVE Words(_, _)
Words(s, cur) ==
  IF s = <<>> THEN (IF cur = <<>> THEN <<>> ELSE <<cur>>)
  ELSE IF IsSpace(Head(s))
       THEN (IF cur = <<>> THEN <<>> ELSE <<cur>>) \o Words(Tail(s), <<>>)
       ELSE Words(Tail(s), Append(cur, Head(s)))

\* ------------------------------------------------------------ the epub file

Elem(tag, text) == [tag |-> tag, text |-> text]

\* A chapter with an h1 heading; its second line holds two matches of "a".
ItemA ==
  [name |-> <<"x">>, type |-> "document", utf8 |-> TRUE,
   elems |-> <<Elem("h1", <<"A", "b">>),
               Elem("p", <<"a", "b", SP, "a">>),
               Elem("p", <<"b", SP, "(", "a">>)>>]

\* No heading, a directory in its name, and a text node that holds a blank
\* line inside (a <p> whose text spans three source lines).
ItemB ==
  [name |-> <<"t", "/", "y">>, type |-> "document", utf8 |-> TRUE,
   elems |-> <<Elem("p", <<SP, "a", NL, NL, "b", SP>>)>>]

\* An h1 that holds only whitespace before an h2 with text.
ItemC ==
  [name |-> <<"z">>, type |-> "document", utf8 |-> TRUE,
   elems |-> <<Elem("h1", <<SP>>),
               Elem("h2", <<"A", "b">>),
               Elem("p", <<"a", ".", "b">>)>>]

\* The same title as ItemA, from an h2.
ItemD ==
  [name |-> <<"w">>, type |-> "document", utf8 |-> TRUE,
   elems |-> <<Elem("h2", <<"A", "b">>),
               Elem("p", <<"b", SP, "a">>)>>]

\* A content document whose bytes are not valid UTF-8.
ItemE ==
  [name |-> <<"u">>, type |-> "document", utf8 |-> FALSE,
   elems |-> <<Elem("p", <<"a">>)>>]

\* A manifest item that is no content document.
ItemF ==
  [name |-> <<"i">>, type |-> "image", utf8 |-> FALSE, elems |-> <<>>]

Library == {ItemA, ItemB, ItemC, ItemD, ItemE, ItemF}

Injective(f) == \A i, j \in DOMAIN f : f[i] = f[j] => i = j

\* The manifests: up to MaxItems distinct items (member names are unique in
\* an archive).
Manifests ==
  UNION {{m \in [1..n -> Library] : Injective(m)} : n \in 0..MaxItems}

RECURSIVE DocumentItems(_)
DocumentItems(items) ==
  IF items = <<>> THEN <<>>
  ELSE IF Head(items).type = "document"
       THEN <<Head(items)>> \o DocumentItems(Tail(items))
       ELSE DocumentItems(Tail(items))

Names(items) == [i \in DOMAIN items |-> items[i].name]

Reverse(s) == [i \in DOMAIN s |-> s[Len(s) + 1 - i]]

\* The spines a package may declare over its content documents: here the
\* manifest's order or the opposite one.
Spines(m) == {Names(DocumentItems(m)), Reverse(Names(DocumentItems(m)))}

\* The DC metadata a package may hold: each field a list of (value, attrs).
NoMeta == [title |-> <<>>, creator |-> <<>>, language |-> <<>>,
           identifier |-> <<>>]
SomeMeta == [title |-> <<<<<<"A">>, 0>>, <<<<"b">>, 0>>>>,
             creator |-> <<<<<<"a">>, 0>>>>,
             language |-> <<>>,
             identifier |-> <<<<<<>>, 0>>>>]

Metas == {NoMeta, SomeMeta}

Documents ==
  UNION {{[items |-> m, spine |-> s, meta |-> md] :
            s \in Spines(m), md \in Metas} : m \in Manifests}

SearchLibrary == {ItemA, ItemB, ItemC, ItemE}

SearchDocuments ==
  {[items |-> m, spine |-> Names(DocumentItems(m)), meta |-> NoMeta] :
     m \in {x \in Manifests : \A i \in DOMAIN x : x[i] \in SearchLibrary}}

\* What stands in doc when the path holds no readable package.
NoDocument == [items |-> <<>>, spine |-> <<>>, meta |-> NoMeta]

\* --------------------------------------------------------------- parser.py

\* epub.read_epub(path): the book, or the archive error of a file that is no
\* valid package.
read_epub(f, d) ==
  IF f = "valid" THEN [err |-> "none", val |-> d]
  ELSE [err |-> "CorruptArchive", val |-> NoDocument]

\* book.get_items_of_type(t): the manifest's items of that type, in the
\* order book.items holds them.  The spine is not read.
RECURSIVE get_items_of_type(_, _)
get_items_of_type(items, t) ==
  IF items = <<>> THEN <<>>
  ELSE IF Head(items).type = t
       THEN <<Head(items)>> \o get_items_of_type(Tail(items), t)
       ELSE get_items_of_type(Tail(items), t)

\* The text nodes of the markup, each stripped, the empty ones dropped.
RECURSIVE StrippedStrings(_)
StrippedStrings(elems) ==
  IF elems = <<>> THEN <<>>
  ELSE IF Strip(Head(elems).text) = <<>> THEN StrippedStrings(Tail(elems))
       ELSE <<Strip(Head(elems).text)>> \o StrippedStrings(Tail(elems))

\* soup.get_text(separator="\n", strip=True).
get_text(elems) == Join(StrippedStrings(elems), <<NL>>)

\* soup.find(tag): the first element with that tag, or None.
RECURSIVE find(_, _)
find(elems, tag) ==
  IF elems = <<>> THEN None
  ELSE IF Head(elems).tag = tag THEN Some(Head(elems))
       ELSE find(Tail(elems), tag)

\* The loop over h1, h2, h3, title: the first tag that is present decides
\* (a bs4 Tag is truthy also when it holds no text), and the loop breaks.
RECURSIVE HeadingTitle(_, _)
HeadingTitle(elems, tags) ==
  IF tags = <<>> THEN <<>>
  ELSE IF find(elems, Head(tags)) # None
       THEN Strip(find(elems, Head(tags))[1].text)
       ELSE HeadingTitle(elems, Tail(tags))

TitleTags == <<"h1", "h2", "h3", "title">>

\* The title of a content document: the heading's, or item.get_name().
ChapterTitle(item) ==
  IF HeadingTitle(item.elems, TitleTags) # <<>>
  THEN HeadingTitle(item.elems, TitleTags)
  ELSE item.name

\* One pass of the loop's body: the Chapter of a content document.
Chapter(item) ==
  [title |-> ChapterTitle(item),
   content |-> get_text(item.elems),
   file_name |-> item.name]

\* The loop of get_chapters: decode("utf-8") is strict and raises on the
\* first content document whose bytes are not valid UTF-8.
RECURSIVE ExtractLoop(_, _)
ExtractLoop(items, chapters) ==
  IF items = <<>> THEN [err |-> "none", val |-> chapters]
  ELSE IF ~Head(items).utf8
       THEN [err |-> "UnicodeDecodeError", val |-> <<>>]
       ELSE ExtractLoop(Tail(items), Append(chapters, Chapter(Head(items))))

\* EpubParser.get_chapters on a loaded book.
get_chapters(b) == ExtractLoop(get_items_of_type(b.items, "document"), <<>>)

\* One field of EpubMetadata: value[0][0] if value else None.
FirstOrNone(field) == IF field # <<>> THEN Some(field[1][1]) ELSE None

\* EpubParser.get_metadata on a loaded book.
get_metadata(b) ==
  [title |-> FirstOrNone(b.meta.title),
   author |-> FirstOrNone(b.meta.creator),
   language |-> FirstOrNone(b.meta.language),
   identifier |-> FirstOrNone(b.meta.identifier)]

\* "\n\n".join(chapter.content for chapter in chapters).
FullTextSeparator == <<NL, NL>>

FullTextOneNewline(chs) ==
  Join([i \in DOMAIN chs |-> chs[i].content], <<NL>>)

FullText(chs) ==
  Join([i \in DOMAIN chs |-> chs[i].content], FullTextSeparator)

\* ---------------------------------------------------------------- query.py

\* The characters re.escape puts a backslash before (of the model's).
SpecialChars == {"(", ".", BS, SP, NL}

\* re.escape(pattern).
RECURSIVE escape(_)
escape(p) ==
  IF p = <<>> THEN <<>>
  ELSE (IF Head(p) \in SpecialChars THEN <<BS, Head(p)>> ELSE <<Head(p)>>)
       \o escape(Tail(p))

Lit(c) == [kind |-> "lit", ch |-> c]
AnyChar == [kind |-> "any", ch |-> "."]

\* re.compile(pattern) for the patterns of the model: a backslash makes the
\* special character after it a literal and is an error at the end of the
\* pattern; "(" opens a group that nothing closes (the model's patterns hold
\* no ")"), an error; "." matches any character of a line.
RECURSIVE compile(_)
compile(p) ==
  IF p = <<>> THEN [err |-> "none", toks |-> <<>>]
  ELSE IF Head(p) = BS
       THEN IF Len(p) = 1 THEN [err |-> "re.error", toks |-> <<>>]
            ELSE LET rest == compile(SubSeq(p, 3, Len(p)))
                 IN [err |-> rest.err,
                     toks |-> IF rest.err = "none"
                              THEN <<Lit(p[2])>> \o rest.toks ELSE <<>>]
       ELSE IF Head(p) = "(" THEN [err |-> "re.error", toks |-> <<>>]
       ELSE LET rest == compile(Tail(p))
                tok == IF Head(p) = "." THEN AnyChar ELSE Lit(Head(p))
            IN [err |-> rest.err,
                toks |-> IF rest.err = "none"
                         THEN <<tok>> \o rest.toks ELSE <<>>]

\* One token against one character; ic is re.IGNORECASE.
TokMatches(t, c, ic) ==
  IF t.kind = "any" THEN c # NL
  ELSE IF ic THEN Lower(t.ch) = Lower(c) ELSE t.ch = c

\* Whether the compiled pattern matches line at 0-based offset pos.
MatchAt(toks, line, pos, ic) ==
  /\ pos + Len(toks) <= Len(line)
  /\ \A k \in 1..Len(toks) : TokMatches(toks[k], line[pos + k], ic)

\* compiled.findall(line): the scan goes left to right and resumes after
\* each match.  start is the match's 0-based offset in the line: findall
\* does not return it, the model keeps it to state where a match lies.
RECURSIVE findall(_, _, _, _)
findall(toks, line, ic, pos) ==
  IF pos > Len(line) THEN <<>>
  ELSE IF MatchAt(toks, line, pos, ic)
       THEN <<[match |-> SubSeq(line, pos + 1, pos + Len(toks)),
               start |-> pos]>>
            \o findall(toks, line, ic, pos + Max(Len(toks), 1))
       ELSE findall(toks, line, ic, pos + 1)

\* The context of a match on 0-based line i:
\* "\n".join(lines[max(0, i - c) : min(len(lines), i + c + 1)]).
ContextShort(lines, i, c) ==
  Join(SubSeq(lines, Max(0, i - c) + 1, Min(Len(lines), i + c)), <<NL>>)

Context(lines, i, c) ==
  Join(SubSeq(lines, Max(0, i - c) + 1, Min(Len(lines), i + c + 1)), <<NL>>)

\* The SearchResults of 0-based line i of a chapter, one per match.
LineResults(chapter, lines, i, toks, ic, c) ==
  LET matches == findall(toks, lines[i + 1], ic, 0)
  IN [k \in 1..Len(matches) |->
        [chapter_title |-> chapter.title,
         file_name |-> chapter.file_name,
         match |-> matches[k].match,
         context |-> Context(lines, i, c),
         line_number |-> i + 1,
         start |-> matches[k].start]]

\* for i, line in enumerate(lines), from line i on.
RECURSIVE ChapterResults(_, _, _, _, _, _)
ChapterResults(chapter, lines, i, toks, ic, c) ==
  IF i >= Len(lines) THEN <<>>
  ELSE LineResults(chapter, lines, i, toks, ic, c)
       \o ChapterResults(chapter, lines, i + 1, toks, ic, c)

\* for chapter in self.chapters: results.append(...).
RECURSIVE SearchChaptersPrepend(_, _, _, _)
SearchChaptersPrepend(chs, toks, ic, c) ==
  IF chs = <<>> THEN <<>>
  ELSE SearchChaptersPrepend(Tail(chs), toks, ic, c)
       \o ChapterResults(Head(chs), Split(Head(chs).content, <<NL>>), 0,
                         toks, ic, c)

RECURSIVE SearchChapters(_, _, _, _)
SearchChapters(chs, toks, ic, c) ==
  IF chs = <<>> THEN <<>>
  ELSE ChapterResults(Head(chs), Split(Head(chs).content, <<NL>>), 0,
                      toks, ic, c)
       \o SearchChapters(Tail(chs), toks, ic, c)

\* The pattern search compiles: escaped unless regex.
SearchPattern(a) == IF a.regex THEN a.pattern ELSE escape(a.pattern)

\* by_chapter[title] = words on a dict that keeps insertion order: a key
\* that is present keeps its place and takes the new value.
DictSet(d, key, v) ==
  IF \E i \in DOMAIN d : d[i].key = key
  THEN [i \in DOMAIN d |-> IF d[i].key = key THEN [key |-> key, val |-> v]
                            ELSE d[i]]
  ELSE Append(d, [key |-> key, val |-> v])

\* The loop of word_count, from the report so far.
RECURSIVE WordCountLoop(_, _)
WordCountLoop(chs, report) ==
  IF chs = <<>> THEN report
  ELSE LET words == Len(Words(Head(chs).content, <<>>))
       IN WordCountLoop(Tail(chs),
            [total |-> report.total + words,
             by_chapter |-> DictSet(report.by_chapter, Head(chs).title, words)])

word_count(chs) == WordCountLoop(chs, [total |-> 0, by_chapter |-> <<>>])

\* list_chapters.
list_chapters(chs) == [i \in DOMAIN chs |-> chs[i].title]

\* get_chapter_content: the first chapter with that title, or None.
RECURSIVE get_chapter_content(_, _)
get_chapter_content(chs, title) ==
  IF chs = <<>> THEN None
  ELSE IF Head(chs).title = title THEN Some(Head(chs).content)
       ELSE get_chapter_content(Tail(chs), title)

\* ------------------------------------------------------------ the accessors

\* EpubParser.book: read_epub on the first access, cached when it succeeds.
book(b, f, d) ==
  IF b # None THEN [err |-> "none", book |-> b, read |-> 0]
  ELSE LET r == read_epub(f, d)
       IN IF r.err = "none"
          THEN [err |-> "none", book |-> Some(r.val), read |-> 1]
          ELSE [err |-> r.err, book |-> None, read |-> 1]

\* EpubParser.get_chapters(): through self.book, then the loop; nothing of
\* the parser keeps the list.
parser_get_chapters(b, f, d) ==
  LET bk == book(b, f, d)
  IN IF bk.err # "none"
     THEN [err |-> bk.err, val |-> <<>>, book |-> bk.book, read |-> bk.read,
           extracted |-> 0]
     ELSE LET r == get_chapters(bk.book[1])
          IN [err |-> r.err, val |-> r.val, book |-> bk.book,
              read |-> bk.read, extracted |-> 1]

\* EpubQuery.chapters: parser.get_chapters() when _chapters is None, kept
\* when it returns.
chapters(c, b, f, d) ==
  IF c # None
  THEN [err |-> "none", val |-> c[1], chapters |-> c, book |-> b,
        read |-> 0, extracted |-> 0]
  ELSE LET r == parser_get_chapters(b, f, d)
       IN [err |-> r.err, val |-> r.val,
           chapters |-> IF r.err = "none" THEN Some(r.val) ELSE None,
           book |-> r.book, read |-> r.read, extracted |-> r.extracted]

Call(op, args, err, val) ==
  [op |-> op, args |-> args, err |-> err, val |-> val]

\* A call that raises before it touches the handle.
Raise(op, args, err) ==
  /\ ret' = Call(op, args, err, <<>>)
  /\ UNCHANGED <<fs, doc, handle, _book, _chapters, extractions, reads>>

\* A call of EpubQuery that went through self.chapters with outcome r and,
\* when that did not raise, returns val.
ThroughChapters(op, args, r, val) ==
  /\ reads + r.read <= MaxWork
  /\ extractions + r.extracted <= MaxWork
  /\ ret' = Call(op, args, r.err, IF r.err = "none" THEN val ELSE <<>>)
  /\ _book' = r.book
  /\ _chapters' = r.chapters
  /\ reads' = reads + r.read
  /\ extractions' = extractions + r.extracted
  /\ UNCHANGED <<fs, doc, handle>>

\* A call of EpubParser with outcome r: _chapters is not the parser's.
ThroughParser(op, r, val) ==
  /\ reads + r.read <= MaxWork
  /\ extractions + r.extracted <= MaxWork
  /\ ret' = Call(op, <<>>, r.err, IF r.err = "none" THEN val ELSE <<>>)
  /\ _book' = r.book
  /\ reads' = reads + r.read
  /\ extractions' = extractions + r.extracted
  /\ UNCHANGED <<fs, doc, handle, _chapters>>

\* ------------------------------------------------------------------ inputs

\* Patterns re.compile accepts, and patterns it rejects (a group that is
\* never closed).
WellFormedPatterns == {<<"a">>, <<".">>, <<BS, "(">>, <<"a", "b">>}
MalformedPatterns == {<<"(">>, <<"a", "(">>}
Patterns == WellFormedPatterns \cup MalformedPatterns

SearchArgs ==
  [pattern : Patterns, case_sensitive : BOOLEAN, regex : BOOLEAN,
   context_lines : 0..MaxContext]

Titles == {<<"A", "b">>, <<"z">>, <<"q">>}

\* ----------------------------------------------------------------- actions

Init ==
  /\ fs \in {"missing", "corrupt", "valid"}
  /\ doc \in IF fs = "valid" THEN Documents ELSE {NoDocument}
  /\ handle = "none"
  /\ _book = None
  /\ _chapters = None
  /\ ret = Call("none", <<>>, "none", <<>>)
  /\ extractions = 0
  /\ reads = 0
  /\ search_failed = FALSE

\* EpubQuery(path): EpubParser.__init__ checks only that the path exists.
Load ==
  /\ handle = "none"
  /\ IF fs = "missing"
     THEN /\ ret' = Call("load", <<>>, "FileNotFoundError", <<>>)
          /\ UNCHANGED <<handle, _book, _chapters>>
     ELSE /\ ret' = Call("load", <<>>, "none", <<>>)
          /\ handle' = "open"
          /\ _book' = None
          /\ _chapters' = None
  /\ UNCHANGED <<fs, doc, extractions, reads, search_failed>>

\* query.chapters.
Chapters ==
  /\ handle = "open"
  /\ LET r == chapters(_chapters, _book, fs, doc)
     IN ThroughChapters("chapters", <<>>, r, r.val)
  /\ UNCHANGED search_failed

\* query.search(pattern, ...): the pattern is compiled before self.chapters
\* is read.
SearchCallEager(a) ==
  LET comp == compile(SearchPattern(a))
      r == chapters(_chapters, _book, fs, doc)
  IN IF comp.err # "none"
     THEN /\ ThroughChapters("search", a, [r EXCEPT !.err = comp.err], <<>>)
          /\ search_failed' = TRUE
     ELSE /\ ThroughChapters("search", a, r,
                SearchChapters(r.val, comp.toks, ~a.case_sensitive,
                               a.context_lines))
          /\ UNCHANGED search_failed

SearchCall(a) ==
  LET comp == compile(SearchPattern(a))
      r == chapters(_chapters, _book, fs, doc)
  IN IF comp.err # "none"
     THEN /\ Raise("search", a, comp.err)
          /\ search_failed' = TRUE
     ELSE /\ ThroughChapters("search", a, r,
                SearchChapters(r.val, comp.toks, ~a.case_sensitive,
                               a.context_lines))
          /\ UNCHANGED search_failed

Search ==
  /\ handle = "open"
  /\ \E a \in SearchArgs : SearchCall(a)

ListChapters ==
  /\ handle = "open"
  /\ LET r == chapters(_chapters, _book, fs, doc)
     IN ThroughChapters("list_chapters", <<>>, r, list_chapters(r.val))
  /\ UNCHANGED search_failed

GetChapterContent ==
  /\ handle = "open"
  /\ \E t \in Titles :
       LET r == chapters(_chapters, _book, fs, doc)
       IN ThroughChapters("get_chapter_content", t, r,
                          get_chapter_content(r.val, t))
  /\ UNCHANGED search_failed

WordCount ==
  /\ handle = "open"
  /\ LET r == chapters(_chapters, _book, fs, doc)
     IN ThroughChapters("word_count", <<>>, r, word_count(r.val))
  /\ UNCHANGED search_failed

\* query.parser.get_full_text().
GetFullText ==
  /\ handle = "open"
  /\ LET r == parser_get_chapters(_book, fs, doc)
     IN ThroughParser("get_full_text", r, FullText(r.val))
  /\ UNCHANGED search_failed

\* query.parser.get_metadata(): four reads of self.book.
GetMetadata ==
  /\ handle = "open"
  /\ LET bk == book(_book, fs, doc)
         r == [err |-> bk.err, book |-> bk.book, read |-> bk.read,
               extracted |-> 0]
     IN ThroughParser("get_metadata", r,
                      IF bk.err = "none" THEN get_metadata(bk.book[1])
                      ELSE <<>>)
  /\ UNCHANGED search_failed

\* The calls on a handle other than search.
Next ==
  \/ Load
  \/ Chapters
  \/ ListChapters
  \/ GetChapterContent
  \/ WordCount
  \/ GetFullText
  \/ GetMetadata

Spec == Init /\ [][Next]_vars

\* Searches on a handle, before and after its chapters are cached.  The
\* packages are those of the items a search tells apart; search reads
\* neither the spine nor the metadata.
InitSearch ==
  /\ fs \in {"missing", "corrupt", "valid"}
  /\ doc \in IF fs = "valid" THEN SearchDocuments ELSE {NoDocument}
  /\ handle = "none"
  /\ _book = None
  /\ _chapters = None
  /\ ret = Call("none", <<>>, "none", <<>>)
  /\ extractions = 0
  /\ reads = 0
  /\ search_failed = FALSE

NextSearch ==
  \/ Load
  \/ Chapters
  \/ Search

SpecSearch == InitSearch /\ [][NextSearch]_vars

\* ------------------------------------------------------------------ claims

SearchReturned == ret.op = "search" /\ ret.err = "none"

\* The position in the chapter list of the chapter a result names.
ChapterIndex(chs, r) == CHOOSE k \in DOMAIN chs : chs[k].file_name = r.file_name

\* r1 comes strictly before r2 in reading order.
ReadsBefore(chs, r1, r2) ==
  \/ ChapterIndex(chs, r1) < ChapterIndex(chs, r2)
  \/ /\ ChapterIndex(chs, r1) = ChapterIndex(chs, r2)
     /\ \/ r1.line_number < r2.line_number
        \/ /\ r1.line_number = r2.line_number
           /\ r1.start < r2.start

\* C1: the results of a search are in reading order: by the chapter's
\* position in the chapter list, then by line number, then by the match's
\* place in its line, left to right.
C1_ResultsInReadingOrder ==
  SearchReturned =>
    \A i, j \in DOMAIN ret.val :
      i < j => ReadsBefore(_chapters[1], ret.val[i], ret.val[j])

\* C1 witness: a search returned two matches of one line and then a match of
\* a later chapter.
C1_Witness ==
  /\ SearchReturned
  /\ \E i, j, k \in DOMAIN ret.val :
       /\ i < j /\ j < k
       /\ ret.val[i].file_name = ret.val[j].file_name
       /\ ret.val[i].line_number = ret.val[j].line_number
       /\ ret.val[k].file_name # ret.val[i].file_name

\* The lines of the chapter a result names.
LinesOf(chs, r) == Split(chs[ChapterIndex(chs, r)].content, <<NL>>)

\* C2: a result of a search with context_lines c whose match is on 0-based
\* line i of a chapter with lines 0..lastLine has line_number i + 1 and as
\* context the lines max(0, i - c) .. min(lastLine, i + c), joined by
\* newline; with c = 0 the context is the matched line.
C2_ContextWindow ==
  SearchReturned =>
    \A n \in DOMAIN ret.val :
      LET r == ret.val[n]
          lines == LinesOf(_chapters[1], r)
          lastLine == Len(lines) - 1
          c == ret.args.context_lines
          i == r.line_number - 1
      IN /\ i \in 0..lastLine
         /\ r.match # <<>>
         /\ OccursAt(lines[i + 1], r.match, r.start + 1)
         /\ r.context =
              Join([k \in 1..(Min(lastLine, i + c) - Max(0, i - c) + 1) |->
                      lines[Max(0, i - c) + k]], <<NL>>)
         /\ c = 0 => r.context = lines[i + 1]

\* C2 witness: a match on the first of three lines with one line of context
\* (the window is cut at the top, not at the bottom), and a second result.
C2_Witness ==
  /\ SearchReturned
  /\ ret.args.context_lines = 1
  /\ \E n \in DOMAIN ret.val :
       /\ ret.val[n].line_number = 1
       /\ Len(LinesOf(_chapters[1], ret.val[n])) = 3
  /\ Len(ret.val) > 1

\* A valid package that holds content documents, all of valid UTF-8: no
\* call on its handle raises.
CleanPackage ==
  /\ fs = "valid"
  /\ get_items_of_type(doc.items, "document") # <<>>
  /\ \A i \in DOMAIN doc.items :
       doc.items[i].type = "document" => doc.items[i].utf8

\* C3: on one handle the chapters are extracted at most once, whatever the
\* sequence of calls (chapters, list_chapters, get_chapter_content,
\* word_count, get_full_text, get_metadata).
C3_ExtractedAtMostOnce == CleanPackage => extractions <= 1

\* What a search with arguments a returns on a handle nothing was called on.
FreshSearch(a) ==
  SearchChapters(get_chapters(doc).val, compile(SearchPattern(a)).toks,
                 ~a.case_sensitive, a.context_lines)

\* C4: a search in regex mode with a malformed pattern raises the pattern
\* error and leaves _chapters (and _book) as they were, computed or not; a
\* search that returns after one that failed returns what it returns on a
\* fresh handle.
C4_MalformedPatternIsolated ==
  /\ [][(/\ ret'.op = "search"
         /\ ret'.args.regex
         /\ ret'.args.pattern \in MalformedPatterns)
        => (/\ ret'.err = "re.error"
            /\ _chapters' = _chapters
            /\ _book' = _book)]_vars
  /\ []((search_failed /\ SearchReturned) => ret.val = FreshSearch(ret.args))

\* C4 witness: after a search that raised re.error, a search returned
\* matches.
C4_Witness ==
  /\ search_failed
  /\ SearchReturned
  /\ ret.val # <<>>

\* C5: the chapter list is the spine's content documents in the spine's
\* order.
C5_ChaptersFollowSpine ==
  _chapters # None =>
    [k \in DOMAIN _chapters[1] |-> _chapters[1][k].file_name] = doc.spine

\* C6: the extraction of a valid package with n content documents returns n
\* chapters and raises nothing, whatever the bytes of a content document.
C6_ExtractionNeverFails ==
  (fs = "valid" /\ ret.op = "chapters") =>
    /\ ret.err = "none"
    /\ Len(ret.val) = Len(get_items_of_type(doc.items, "document"))

\* The file-name component of an internal path.
RECURSIVE BaseName(_)
BaseName(path) ==
  IF \E i \in DOMAIN path : path[i] = "/" THEN BaseName(Tail(path)) ELSE path

\* The trimmed text of the first non-empty element among the tags, in
\* priority order.
RECURSIVE FirstNonEmptyHeading(_, _)
FirstNonEmptyHeading(elems, tags) ==
  IF tags = <<>> THEN <<>>
  ELSE IF /\ find(elems, Head(tags)) # None
          /\ Strip(find(elems, Head(tags))[1].text) # <<>>
       THEN Strip(find(elems, Head(tags))[1].text)
       ELSE FirstNonEmptyHeading(elems, Tail(tags))

ClaimedTitle(item) ==
  IF FirstNonEmptyHeading(item.elems, TitleTags) # <<>>
  THEN FirstNonEmptyHeading(item.elems, TitleTags)
  ELSE BaseName(item.name)

\* C7: every chapter's title is not empty and is the trimmed text of the
\* first non-empty h1, h2, h3 or title element, or else the file-name
\* component of the chapter's internal path.
C7_TitleDerivation ==
  _chapters # None =>
    \A k \in DOMAIN _chapters[1] :
      /\ _chapters[1][k].title # <<>>
      /\ _chapters[1][k].title =
           ClaimedTitle(get_items_of_type(doc.items, "document")[k])

\* C8: loading a path that holds no valid package fails at load time, and a
\* handle that was returned never raises a container error later.
C8_ContainerErrorsAtLoad ==
  /\ (ret.op = "load" /\ fs # "valid") => ret.err # "none"
  /\ handle = "open" => ret.err # "CorruptArchive"

\* The blank-line separator: two consecutive newlines.
BlankLine == <<NL, NL>>

ContainsBlankLine(s) == \E i \in DOMAIN s : OccursAt(s, BlankLine, i)
StartsBlank(s) == s # <<>> /\ Head(s) = NL
EndsBlank(s) == s # <<>> /\ s[Len(s)] = NL

\* The contents get_full_text joined.
JoinedContents ==
  LET chs == get_chapters(doc).val IN [k \in DOMAIN chs |-> chs[k].content]

FullTextReturned == ret.op = "get_full_text" /\ ret.err = "none"

RECURSIVE SumOfValues(_)
SumOfValues(d) == IF d = <<>> THEN 0 ELSE Head(d).val + SumOfValues(Tail(d))

\* C10: the word-count report has one by_chapter entry per chapter and its
\* total is the sum of the by_chapter values, also when titles repeat.
C10_WordCountTotals ==
  (ret.op = "word_count" /\ ret.err = "none") =>
    /\ Len(ret.val.by_chapter) = Len(_chapters[1])
    /\ ret.val.total = SumOfValues(ret.val.by_chapter)
====
